---- MODULE Spec2Model ----
(***************************************************************************)
(* TaskPro backend: the credential and session store, the bearer-token     *)
(* gate, the board / column / card collections and the invitation          *)
(* workflow, as a state machine over the MongoDB collections.              *)
(***************************************************************************)
EXTENDS Integers, Sequences, FiniteSets, TLC

\* ---------------------------------------------------------------- bounds
MaxUsers == 2
MaxSessions == 2
MaxTokens == 4
MaxClock == 168
MaxInflight == 2
MaxBoards == 2
MaxColumns == 2
MaxCards == 1
MaxInvitations == 2
MaxInvBoards == 1
MaxJobs == 2
MaxCollaborators == 3
MaxGate == 1
MaxCollab == 1
MaxUploads == 2

\* ------------------------------------------------------ program constants
\* jwt.sign(payload, SECRET_KEY, { expiresIn: "20h" }) and { expiresIn: "7d" },
\* both in hours.
AccessTTL == 20
RefreshTTL == 168

None == "none"
SECRET_KEY == "SECRET_KEY"
Forged == "forged"

\* Request inputs.  The Bad* values are strings the Joi schemas reject (an
\* empty name, an email without "@", a password shorter than min(6)); every
\* other value passes the regular expressions of utils/validators.js.
Names == {"Ann"}
BadName == ""
Emails == {"a@x.com", "b@x.com"}
BadEmail == "a-at-x"
Passwords == {"Secret123!", "Hunter22!"}
BadPassword == "abc"
RandomPasswords == {"k3x9q2zp"}

VARIABLES
  users,      \* User collection: _id -> [name, email, password, theme]
  sessions,   \* Session collection: _id -> [uid]
  nextSid,    \* the next fresh Session _id
  tokens,     \* every JWT signed with SECRET_KEY so far
  clock,      \* wall clock, in hours
  signUps,    \* signUp requests between User.findOne and User.create: body -> how many
  uploads,    \* how many temporary files multer has left in the uploads directory
  boards,     \* Board collection: _id -> [owner, titleBoard, collaborators]
  nextBoard,  \* the next fresh Board _id
  columns,    \* Column collection: _id -> [titleColumn, boardId, owner]
  nextColumn, \* the next fresh Column _id
  cards,      \* Card collection: _id -> [titleCard, priority, columnId, boardId, owner]
  nextCard,   \* the next fresh Card _id
  invitations,\* Invitation collection: _id -> [boardId, userId, status]
  jobs,       \* accept / decline requests between their awaits
  res         \* the response to the last completed request

authVars == <<users, sessions, nextSid, tokens, clock, signUps, uploads>>
boardVars == <<boards, nextBoard, columns, nextColumn, cards, nextCard>>
invVars == <<invitations, jobs>>
vars == <<users, sessions, nextSid, tokens, clock, signUps, uploads,
          boards, nextBoard, columns, nextColumn, cards, nextCard,
          invitations, jobs, res>>

\* ------------------------------------------------------------- helpers
\* bcrypt.hash / bcrypt.compare
Hash(pw) == <<"bcrypt", pw>>

CompareMutant(pw, hashed) == TRUE

Compare(pw, hashed) == hashed = Hash(pw)

\* jwt.sign: the payload {id, sid}, the expiry and the signature.
Sign(id, sid, ttl) == [id |-> id, sid |-> sid, exp |-> clock + ttl, sig |-> SECRET_KEY]

\* The pair every issuing handler signs: token (20h) and refreshToken (7d).
TokenPair(id, sid) == {Sign(id, sid, AccessTTL), Sign(id, sid, RefreshTTL)}

\* jwt.verify: the signature must be SECRET_KEY's and the token not expired.
jwtVerify(token) == token.sig = SECRET_KEY /\ clock < token.exp

\* What a client can put where a token is expected: a token the server signed,
\* or an unexpired payload under a signature that is not the server's.
Presentable ==
  tokens \cup {[id |-> 1, sid |-> 1, exp |-> MaxClock + RefreshTTL, sig |-> Forged]}

\* Authorization headers, already split on ' ': none, "Bearer" alone, "Bearer <token>".
Headers == {<<>>, <<"Bearer">>} \cup {<<"Bearer", t>> : t \in Presentable}

\* request bodies that carry a refresh token: absent, or one token
TokenBodies == {<<>>} \cup {<<t>> : t \in Presentable}

findByEmail(email) == {u \in DOMAIN users : users[u].email = email}

\* userSchema.email: unique index.  An insert or update that would give `email`
\* to a second document is refused by the store.
UniqueEmailMutant(id, email) == TRUE

UniqueEmail(id, email) == \A u \in DOMAIN users : u # id => users[u].email # email

\* Session.create({uid}): the collection with a fresh session of that user
createSessionMutant(uid) == sessions

createSession(uid) == sessions @@ (nextSid :> [uid |-> uid])

\* hooks/handleSaveErrors.js: the status given to a refused write.
handleSaveError == 409

\* ------------------------------------------------------- authMiddleware
\* status 0 stands for next(): the request goes on to its handler.
authMiddlewareMutant(h) ==
  IF Len(h) = 0 THEN [status |-> 401, user |-> 0, session |-> 0]
  ELSE IF Len(h) < 2 THEN [status |-> 401, user |-> 0, session |-> 0]
  ELSE IF ~jwtVerify(h[2]) THEN [status |-> 401, user |-> 0, session |-> 0]
  ELSE IF h[2].id \notin DOMAIN users THEN [status |-> 401, user |-> 0, session |-> 0]
  ELSE [status |-> 0, user |-> h[2].id, session |-> h[2].sid]

authMiddleware(h) ==
  IF Len(h) = 0 THEN [status |-> 401, user |-> 0, session |-> 0]
  ELSE IF Len(h) < 2 THEN [status |-> 401, user |-> 0, session |-> 0]
  ELSE IF ~jwtVerify(h[2]) THEN [status |-> 401, user |-> 0, session |-> 0]
  ELSE IF h[2].id \notin DOMAIN users THEN [status |-> 401, user |-> 0, session |-> 0]
  ELSE IF h[2].sid \notin DOMAIN sessions THEN [status |-> 401, user |-> 0, session |-> 0]
  ELSE [status |-> 0, user |-> h[2].id, session |-> h[2].sid]

\* ------------------------------------------------------------ authRouter
signUpSchema(body) ==
  body.name \in Names /\ body.email \in Emails /\ body.password \in Passwords

signInSchema(body) == body.email \in Emails /\ body.password \in Passwords

SignUpBodies == [name : Names \cup {BadName}, email : Emails \cup {BadEmail},
                 password : {"Secret123!", BadPassword}]

SignInBodies == [email : Emails \cup {BadEmail}, password : Passwords \cup {BadPassword}]

\* the bodies a signUp request can be holding between its two steps
InflightBodies == {b \in SignUpBodies : signUpSchema(b)}

Inflight == LET n[S \in SUBSET InflightBodies] ==
                  IF S = {} THEN 0
                  ELSE LET b == CHOOSE x \in S : TRUE IN signUps[b] + n[S \ {b}]
            IN n[InflightBodies]

\* signUp up to the first await another request can get in after: validation
\* and User.findOne.
signUpFind(body) ==
  IF ~signUpSchema(body)
  THEN /\ res' = [op |-> "signUp", status |-> 400]
       /\ UNCHANGED authVars
  ELSE IF findByEmail(body.email) # {}
  THEN /\ res' = [op |-> "signUp", status |-> 409,
                  message |-> "Provided email already exists"]
       /\ UNCHANGED authVars
  ELSE /\ Inflight < MaxInflight
       /\ signUps' = [signUps EXCEPT ![body] = @ + 1]
       /\ UNCHANGED <<users, sessions, nextSid, tokens, clock, uploads, res>>

\* signUp from bcrypt.hash on: User.create, Session.create, the token pair.
signUpCreate(body) ==
  /\ signUps[body] > 0
  /\ signUps' = [signUps EXCEPT ![body] = @ - 1]
  /\ LET id == Cardinality(DOMAIN users) + 1 IN
     IF ~UniqueEmail(id, body.email)
     THEN /\ res' = [op |-> "signUp", status |-> handleSaveError]
          /\ UNCHANGED <<users, sessions, nextSid, tokens, clock, uploads>>
     ELSE /\ id <= MaxUsers
          /\ nextSid <= MaxSessions
          /\ Cardinality(tokens \cup TokenPair(id, nextSid)) <= MaxTokens
          /\ users' = users @@ (id :> [name |-> body.name, email |-> body.email,
                                       password |-> Hash(body.password),
                                       avatarURL |-> "default", theme |-> "dark"])
          /\ sessions' = createSession(id)
          /\ nextSid' = nextSid + 1
          /\ tokens' = tokens \cup TokenPair(id, nextSid)
          /\ res' = [op |-> "signUp", status |-> 201,
                     token |-> Sign(id, nextSid, AccessTTL),
                     refreshToken |-> Sign(id, nextSid, RefreshTTL)]
          /\ UNCHANGED <<clock, uploads>>

signIn(body) ==
  LET found == findByEmail(body.email) IN
  IF ~signInSchema(body)
  THEN /\ res' = [op |-> "signIn", status |-> 400, message |-> "validation"]
       /\ UNCHANGED authVars
  ELSE IF found = {}
  THEN /\ res' = [op |-> "signIn", status |-> 403, message |-> "Invalid email or password"]
       /\ UNCHANGED authVars
  ELSE LET id == CHOOSE u \in found : TRUE IN
       IF ~Compare(body.password, users[id].password)
       THEN /\ res' = [op |-> "signIn", status |-> 403,
                       message |-> "Invalid email or password"]
            /\ UNCHANGED authVars
       ELSE /\ nextSid <= MaxSessions
            /\ Cardinality(tokens \cup TokenPair(id, nextSid)) <= MaxTokens
            /\ sessions' = createSession(id)
            /\ nextSid' = nextSid + 1
            /\ tokens' = tokens \cup TokenPair(id, nextSid)
            /\ res' = [op |-> "signIn", status |-> 200,
                       token |-> Sign(id, nextSid, AccessTTL),
                       refreshToken |-> Sign(id, nextSid, RefreshTTL)]
            /\ UNCHANGED <<users, clock, signUps, uploads>>

\* The status refreshToken answers `body` with in the current state.
refreshStatusMutant(body) ==
  IF Len(body) = 0 THEN 403
  ELSE IF ~jwtVerify(body[1]) THEN 403
  ELSE IF body[1].id \notin DOMAIN users THEN 403
  ELSE 200

refreshStatus(body) ==
  IF Len(body) = 0 THEN 403
  ELSE IF ~jwtVerify(body[1]) THEN 403
  ELSE IF body[1].id \notin DOMAIN users THEN 403
  ELSE IF body[1].sid \notin DOMAIN sessions THEN 403
  ELSE 200

refreshToken(body) ==
  IF refreshStatus(body) # 200
  THEN /\ res' = [op |-> "refreshToken", status |-> 403]
       /\ UNCHANGED authVars
  ELSE /\ Cardinality(tokens \cup TokenPair(body[1].id, body[1].sid)) <= MaxTokens
       /\ tokens' = tokens \cup TokenPair(body[1].id, body[1].sid)
       /\ res' = [op |-> "refreshToken", status |-> 200,
                  token |-> Sign(body[1].id, body[1].sid, AccessTTL),
                  refreshToken |-> Sign(body[1].id, body[1].sid, RefreshTTL)]
       /\ UNCHANGED <<users, sessions, nextSid, clock, signUps, uploads>>

\* The status logOut answers `body` with in the current state.
logOutStatusMutant(body) ==
  IF Len(body) = 0 THEN 403
  ELSE IF ~jwtVerify(body[1]) THEN 403
  ELSE 200

logOutStatus(body) ==
  IF Len(body) = 0 THEN 403
  ELSE IF ~jwtVerify(body[1]) THEN 403
  ELSE IF body[1].sid \notin DOMAIN sessions THEN 403
  ELSE 200

\* Session.findByIdAndDelete(sid)
deleteSessionMutant(sid) == sessions

deleteSession(sid) == [s \in DOMAIN sessions \ {sid} |-> sessions[s]]

logOut(body) ==
  IF logOutStatus(body) # 200
  THEN /\ res' = [op |-> "logOut", status |-> 403]
       /\ UNCHANGED authVars
  ELSE /\ sessions' = deleteSession(body[1].sid)
       /\ res' = [op |-> "logOut", status |-> 200]
       /\ UNCHANGED <<users, nextSid, tokens, clock, signUps, uploads>>

\* googleRedirect: `ok` is whether the exchange with the provider succeeded;
\* `email`, `name` are the profile it returned, `random` the placeholder password.
googleRedirect(ok, email, name, random) ==
  LET found == findByEmail(email)
      id == IF found = {} THEN Cardinality(DOMAIN users) + 1 ELSE CHOOSE u \in found : TRUE
  IN
  IF ~ok \/ (found = {} /\ name \notin Names)
  THEN /\ res' = [op |-> "googleRedirect", status |-> 500]
       /\ UNCHANGED authVars
  ELSE /\ id <= MaxUsers
       /\ nextSid <= MaxSessions
       /\ Cardinality(tokens \cup TokenPair(id, nextSid)) <= MaxTokens
       /\ users' = IF found = {}
                   THEN users @@ (id :> [name |-> name, email |-> email,
                                         password |-> Hash(random),
                                         avatarURL |-> "picture", theme |-> "dark"])
                   ELSE users
       /\ sessions' = createSession(id)
       /\ nextSid' = nextSid + 1
       /\ tokens' = tokens \cup TokenPair(id, nextSid)
       /\ res' = [op |-> "googleRedirect", status |-> 302,
                  token |-> Sign(id, nextSid, AccessTTL),
                  refreshToken |-> Sign(id, nextSid, RefreshTTL)]
       /\ UNCHANGED <<clock, signUps, uploads>>

\* ----------------------------------------------------------- usersRouter
getCurrentUser(h) ==
  LET a == authMiddleware(h) IN
  /\ res' = IF a.status # 0 THEN [op |-> "authMiddleware", status |-> a.status]
            ELSE [op |-> "getCurrentUser", status |-> 200, user |-> a.user]
  /\ UNCHANGED authVars

updateProfileSchema(body) ==
  /\ body.name \in Names \cup {None}
  /\ body.email \in Emails \cup {None}
  /\ body.password \in Passwords \cup {None}

ProfileBodies ==
  {[name |-> None, email |-> e, password |-> None] : e \in Emails \cup {BadEmail}} \cup
  {[name |-> None, email |-> None, password |-> p] : p \in Passwords}

updateProfile(h, body) ==
  LET a == authMiddleware(h)
      old == users[a.user]
  IN
  IF a.status # 0
  THEN res' = [op |-> "authMiddleware", status |-> a.status] /\ UNCHANGED authVars
  ELSE IF ~updateProfileSchema(body)
  THEN res' = [op |-> "updateProfile", status |-> 400] /\ UNCHANGED authVars
  ELSE IF body.email # None /\ ~UniqueEmail(a.user, body.email)
  THEN res' = [op |-> "updateProfile", status |-> handleSaveError] /\ UNCHANGED authVars
  ELSE /\ users' = [users EXCEPT ![a.user] =
                      [name |-> IF body.name = None THEN old.name ELSE body.name,
                       email |-> IF body.email = None THEN old.email ELSE body.email,
                       password |-> IF body.password = None THEN old.password
                                    ELSE Hash(body.password),
                       avatarURL |-> old.avatarURL,
                       theme |-> old.theme]]
       /\ res' = [op |-> "updateProfile", status |-> 200, user |-> a.user]
       /\ UNCHANGED <<sessions, nextSid, tokens, clock, signUps, uploads>>

themeList == {"dark", "light", "violet"}
BadTheme == "blue"

\* The 400 of a rejected theme is thrown inside the try block: the catch
\* answers it with 500.
changeTheme(h, theme) ==
  LET a == authMiddleware(h) IN
  IF a.status # 0
  THEN res' = [op |-> "authMiddleware", status |-> a.status] /\ UNCHANGED authVars
  ELSE IF theme \notin themeList
  THEN res' = [op |-> "changeTheme", status |-> 500] /\ UNCHANGED authVars
  ELSE /\ users' = [users EXCEPT ![a.user].theme = theme]
       /\ res' = [op |-> "changeTheme", status |-> 200, user |-> a.user]
       /\ UNCHANGED <<sessions, nextSid, tokens, clock, signUps, uploads>>

\* changeAvatar: `file` is whether the request carries a file, `uploaded`
\* whether the upload to the image host succeeded.  upload.single has
\* written the file to the uploads directory before the handler runs.  On
\* success fs.unlink removes it.  On failure the catch block calls
\* fs.existsSync, which the promises API of node:fs does not have: the call
\* throws a TypeError before fs.unlink, the file stays, and errorHandler
\* answers 500 for an error without a status.
changeAvatar(h, file, uploaded) ==
  LET a == authMiddleware(h) IN
  IF a.status # 0
  THEN res' = [op |-> "authMiddleware", status |-> a.status] /\ UNCHANGED authVars
  ELSE IF ~file
  THEN res' = [op |-> "changeAvatar", status |-> 400] /\ UNCHANGED authVars
  ELSE IF ~uploaded
  THEN /\ uploads < MaxUploads
       /\ uploads' = uploads + 1
       /\ res' = [op |-> "changeAvatar", status |-> 500]
       /\ UNCHANGED <<users, sessions, nextSid, tokens, clock, signUps>>
  ELSE /\ users' = [users EXCEPT ![a.user].avatarURL = "secure_url"]
       /\ res' = [op |-> "changeAvatar", status |-> 200, user |-> a.user]
       /\ UNCHANGED <<sessions, nextSid, tokens, clock, signUps, uploads>>

\* ----------------------------------------------------------- boardsRouter
\* An optional field of a request body is a sequence: << >> when absent,
\* <<v>> when present.
BoardTitle == "Sprint 1"
BadTitle == ""
CollaboratorLists == {<<2, 2>>}
BoardIds == 1..MaxBoards
ColumnIds == 1..MaxColumns
CardIds == 1..MaxCards

addBoardSchema(body) == body.titleBoard # BadTitle

\* Joi.object: a key the schema does not name, such as owner, is not allowed
updateBoardSchema(body) == body.titleBoard # <<BadTitle>> /\ body.owner = << >>

AddBoardBodies ==
  [titleBoard : {BoardTitle, BadTitle},
   collaborators : {<< >>} \cup {<<l>> : l \in CollaboratorLists}]

UpdateBoardBodies ==
  [titleBoard : {<<BoardTitle>>, <<BadTitle>>},
   collaborators : {<< >>, << << >> >>} \cup {<<l>> : l \in CollaboratorLists},
   owner : {<< >>, <<2>>}]

\* Model.findByIdAndDelete(id): the collection without that document
findByIdAndDelete(coll, id) == [d \in DOMAIN coll \ {id} |-> coll[d]]

getUserBoards(h) ==
  LET a == authMiddleware(h) IN
  /\ res' = IF a.status # 0 THEN [op |-> "authMiddleware", status |-> a.status]
            ELSE [op |-> "getUserBoards", status |-> 200]
  /\ UNCHANGED boardVars

\* req.query.priority: absent, or one of PRIORITY_CARD
PriorityQueries == {<< >>, <<"without">>, <<"high">>}

\* Card.find(filter): filter is { columnId }, and priority too when the query
\* has one
findCardsMutant(columnId, priority) ==
  {k \in DOMAIN cards : cards[k].columnId = columnId}

findCards(columnId, priority) ==
  {k \in DOMAIN cards : /\ cards[k].columnId = columnId
                        /\ priority # << >> => cards[k].priority = priority[1]}

\* the answer lists the columns of Column.find({ boardId }), each with its cards
getBoardData(h, boardId, priority) ==
  LET a == authMiddleware(h) IN
  /\ res' = IF a.status # 0 THEN [op |-> "authMiddleware", status |-> a.status]
            ELSE IF boardId \notin DOMAIN boards
            THEN [op |-> "getBoardData", status |-> 404]
            ELSE [op |-> "getBoardData", status |-> 200,
                  columns |-> [c \in {d \in DOMAIN columns : columns[d].boardId = boardId}
                                 |-> findCards(c, priority)]]
  /\ UNCHANGED boardVars

addBoard(h, body) ==
  LET a == authMiddleware(h) IN
  IF a.status # 0
  THEN res' = [op |-> "authMiddleware", status |-> a.status] /\ UNCHANGED boardVars
  ELSE IF ~addBoardSchema(body)
  THEN res' = [op |-> "addBoard", status |-> 400] /\ UNCHANGED boardVars
  ELSE /\ nextBoard <= MaxBoards
       /\ boards' = boards @@ (nextBoard :>
            [owner |-> a.user,
             titleBoard |-> body.titleBoard,
             collaborators |-> IF body.collaborators = << >> THEN << >>
                               ELSE body.collaborators[1]])
       /\ nextBoard' = nextBoard + 1
       /\ res' = [op |-> "addBoard", status |-> 201]
       /\ UNCHANGED <<columns, nextColumn, cards, nextCard>>

\* Board.findByIdAndUpdate(boardId, { titleBoard, background, icon, collaborators })
updateBoardMutant(h, boardId, body) ==
  LET a == authMiddleware(h) IN
  IF a.status # 0
  THEN res' = [op |-> "authMiddleware", status |-> a.status] /\ UNCHANGED boardVars
  ELSE IF ~updateBoardSchema(body)
  THEN res' = [op |-> "updateBoard", status |-> 400] /\ UNCHANGED boardVars
  ELSE /\ boards' = IF boardId \in DOMAIN boards
                    THEN [boards EXCEPT ![boardId].owner = a.user]
                    ELSE boards
       /\ res' = [op |-> "updateBoard", status |-> 200]
       /\ UNCHANGED <<nextBoard, columns, nextColumn, cards, nextCard>>

updateBoard(h, boardId, body) ==
  LET a == authMiddleware(h) IN
  IF a.status # 0
  THEN res' = [op |-> "authMiddleware", status |-> a.status] /\ UNCHANGED boardVars
  ELSE IF ~updateBoardSchema(body)
  THEN res' = [op |-> "updateBoard", status |-> 400] /\ UNCHANGED boardVars
  ELSE /\ boards' = IF boardId \in DOMAIN boards
                    THEN [boards EXCEPT ![boardId] =
                            [owner |-> @.owner,
                             titleBoard |-> IF body.titleBoard = << >> THEN @.titleBoard
                                            ELSE body.titleBoard[1],
                             collaborators |-> IF body.collaborators = << >>
                                               THEN @.collaborators
                                               ELSE body.collaborators[1]]]
                    ELSE boards
       /\ res' = [op |-> "updateBoard", status |-> 200]
       /\ UNCHANGED <<nextBoard, columns, nextColumn, cards, nextCard>>

deleteBoardMutant(h, boardId) ==
  LET a == authMiddleware(h) IN
  IF a.status # 0
  THEN res' = [op |-> "authMiddleware", status |-> a.status] /\ UNCHANGED boardVars
  ELSE IF boardId \in DOMAIN boards /\ boards[boardId].owner # a.user
  THEN res' = [op |-> "deleteBoard", status |-> 403] /\ UNCHANGED boardVars
  ELSE /\ boards' = findByIdAndDelete(boards, boardId)
       /\ res' = [op |-> "deleteBoard", status |-> 200]
       /\ UNCHANGED <<nextBoard, columns, nextColumn, cards, nextCard>>

deleteBoard(h, boardId) ==
  LET a == authMiddleware(h) IN
  IF a.status # 0
  THEN res' = [op |-> "authMiddleware", status |-> a.status] /\ UNCHANGED boardVars
  ELSE /\ boards' = findByIdAndDelete(boards, boardId)
       /\ res' = [op |-> "deleteBoard", status |-> 200]
       /\ UNCHANGED <<nextBoard, columns, nextColumn, cards, nextCard>>

\* ---------------------------------------------------------- columnsRouter
ColumnTitle == "To Do"
NewColumnTitle == "Done"

schemaAddColumn(body) == body.titleColumn # BadTitle

schemaUpdateColumn(body) == body.titleColumn # BadTitle

AddColumnBodies == [titleColumn : {ColumnTitle, BadTitle}, boardId : BoardIds]

UpdateColumnBodies == [titleColumn : {NewColumnTitle, BadTitle}]

addColumn(h, body) ==
  LET a == authMiddleware(h) IN
  IF a.status # 0
  THEN res' = [op |-> "authMiddleware", status |-> a.status] /\ UNCHANGED boardVars
  ELSE IF ~schemaAddColumn(body)
  THEN res' = [op |-> "addColumn", status |-> 400] /\ UNCHANGED boardVars
  ELSE IF body.boardId \notin DOMAIN boards
  THEN res' = [op |-> "addColumn", status |-> 404] /\ UNCHANGED boardVars
  ELSE /\ nextColumn <= MaxColumns
       /\ columns' = columns @@ (nextColumn :>
            [titleColumn |-> body.titleColumn, boardId |-> body.boardId, owner |-> a.user])
       /\ nextColumn' = nextColumn + 1
       /\ res' = [op |-> "addColumn", status |-> 201]
       /\ UNCHANGED <<boards, nextBoard, cards, nextCard>>

\* PUT /:boardId/columns/:columnId: the handler reads req.params.columnId only
updateColumn(h, boardId, columnId, body) ==
  LET a == authMiddleware(h) IN
  IF a.status # 0
  THEN res' = [op |-> "authMiddleware", status |-> a.status] /\ UNCHANGED boardVars
  ELSE IF ~schemaUpdateColumn(body)
  THEN res' = [op |-> "updateColumn", status |-> 400] /\ UNCHANGED boardVars
  ELSE /\ columns' = IF columnId \in DOMAIN columns
                     THEN [columns EXCEPT ![columnId].titleColumn = body.titleColumn]
                     ELSE columns
       /\ res' = [op |-> "updateColumn", status |-> 200]
       /\ UNCHANGED <<boards, nextBoard, nextColumn, cards, nextCard>>

\* DELETE /:boardId/columns/:columnId: the handler reads req.params.columnId only
deleteColumn(h, boardId, columnId) ==
  LET a == authMiddleware(h) IN
  IF a.status # 0
  THEN res' = [op |-> "authMiddleware", status |-> a.status] /\ UNCHANGED boardVars
  ELSE /\ columns' = findByIdAndDelete(columns, columnId)
       /\ res' = [op |-> "deleteColumn", status |-> 200]
       /\ UNCHANGED <<boards, nextBoard, nextColumn, cards, nextCard>>

getColumnsForBoard(h, boardId) ==
  LET a == authMiddleware(h) IN
  /\ res' = IF a.status # 0 THEN [op |-> "authMiddleware", status |-> a.status]
            ELSE [op |-> "getColumnsForBoard", status |-> 200]
  /\ UNCHANGED boardVars

\* ------------------------------------------------------------ cardsRouter
CardTitle == "Fix bug"
Priorities == {"without"}

cardAddSchema(body) == body.titleCard # BadTitle

\* req.body.collaborators of a card: user summaries {userId, name, avatarURL}
CardCollaborators == {<<[userId |-> 2, name |-> "Ann", avatarURL |-> "default"]>>}

AddCardBodies ==
  [titleCard : {CardTitle, BadTitle}, priority : Priorities,
   collaborators : CardCollaborators]

addCard(h, columnId, body) ==
  LET a == authMiddleware(h) IN
  IF a.status # 0
  THEN res' = [op |-> "authMiddleware", status |-> a.status] /\ UNCHANGED boardVars
  ELSE IF ~cardAddSchema(body)
  THEN res' = [op |-> "addCard", status |-> 400] /\ UNCHANGED boardVars
  ELSE IF columnId \notin DOMAIN columns
  THEN res' = [op |-> "addCard", status |-> 404] /\ UNCHANGED boardVars
  ELSE /\ nextCard <= MaxCards
       /\ cards' = cards @@ (nextCard :>
            [titleCard |-> body.titleCard, priority |-> body.priority,
             columnId |-> columnId, boardId |-> columns[columnId].boardId,
             owner |-> a.user, collaborators |-> body.collaborators])
       /\ nextCard' = nextCard + 1
       /\ res' = [op |-> "addCard", status |-> 201]
       /\ UNCHANGED <<boards, nextBoard, columns, nextColumn>>

cardUpdateSchema(body) == body.titleCard # BadTitle

UpdateCardBodies ==
  [titleCard : {CardTitle, BadTitle}, priority : Priorities, columnId : ColumnIds]

\* Card.findByIdAndUpdate(cardId, req.body): every field of the body is set
updateCard(h, cardId, body) ==
  LET a == authMiddleware(h) IN
  IF a.status # 0
  THEN res' = [op |-> "authMiddleware", status |-> a.status] /\ UNCHANGED boardVars
  ELSE IF ~cardUpdateSchema(body)
  THEN res' = [op |-> "updateCard", status |-> 400] /\ UNCHANGED boardVars
  ELSE /\ cards' = IF cardId \in DOMAIN cards
                   THEN [cards EXCEPT ![cardId] =
                           [titleCard |-> body.titleCard, priority |-> body.priority,
                            columnId |-> body.columnId, boardId |-> @.boardId,
                            owner |-> @.owner, collaborators |-> @.collaborators]]
                   ELSE cards
       /\ res' = [op |-> "updateCard", status |-> 200]
       /\ UNCHANGED <<boards, nextBoard, columns, nextColumn, nextCard>>

getCardsForColumn(h, columnId) ==
  LET a == authMiddleware(h) IN
  /\ res' = IF a.status # 0 THEN [op |-> "authMiddleware", status |-> a.status]
            ELSE [op |-> "getCardsForColumn", status |-> 200]
  /\ UNCHANGED boardVars

getCardData(h, cardId) ==
  LET a == authMiddleware(h) IN
  /\ res' = IF a.status # 0 THEN [op |-> "authMiddleware", status |-> a.status]
            ELSE IF cardId \notin DOMAIN cards
            THEN [op |-> "getCardData", status |-> 404]
            ELSE [op |-> "getCardData", status |-> 200]
  /\ UNCHANGED boardVars

deleteCard(h, columnId, cardId) ==
  LET a == authMiddleware(h) IN
  IF a.status # 0
  THEN res' = [op |-> "authMiddleware", status |-> a.status] /\ UNCHANGED boardVars
  ELSE IF cardId \notin DOMAIN cards \/ cards[cardId].columnId # columnId
  THEN res' = [op |-> "deleteCard", status |-> 404] /\ UNCHANGED boardVars
  ELSE /\ cards' = findByIdAndDelete(cards, cardId)
       /\ res' = [op |-> "deleteCard", status |-> 200]
       /\ UNCHANGED <<boards, nextBoard, columns, nextColumn, nextCard>>

\* Card.findByIdAndUpdate(cardId, { columnId: newColumnId })
moveCardMutant(h, cardId, newColumnId) ==
  LET a == authMiddleware(h) IN
  IF a.status # 0
  THEN res' = [op |-> "authMiddleware", status |-> a.status] /\ UNCHANGED boardVars
  ELSE IF cardId \notin DOMAIN cards
  THEN res' = [op |-> "moveCard", status |-> 404] /\ UNCHANGED boardVars
  ELSE /\ cards' = [cards EXCEPT ![cardId].columnId = newColumnId,
                                 ![cardId].boardId =
                                    IF newColumnId \in DOMAIN columns
                                    THEN columns[newColumnId].boardId ELSE @]
       /\ res' = [op |-> "moveCard", status |-> 200]
       /\ UNCHANGED <<boards, nextBoard, columns, nextColumn, nextCard>>

moveCard(h, cardId, newColumnId) ==
  LET a == authMiddleware(h) IN
  IF a.status # 0
  THEN res' = [op |-> "authMiddleware", status |-> a.status] /\ UNCHANGED boardVars
  ELSE IF cardId \notin DOMAIN cards
  THEN res' = [op |-> "moveCard", status |-> 404] /\ UNCHANGED boardVars
  ELSE /\ cards' = [cards EXCEPT ![cardId].columnId = newColumnId]
       /\ res' = [op |-> "moveCard", status |-> 200]
       /\ UNCHANGED <<boards, nextBoard, columns, nextColumn, nextCard>>

\* ---------------------------------------------------- invitationController
InvitationIds == 1..MaxInvitations
UserIds == 1..MaxUsers
InvitationBodies == [boardId : 1..MaxInvBoards, userId : UserIds]

Elems(seq) == {seq[i] : i \in DOMAIN seq}

\* board.collaborators.filter(id => !id.equals(userId))
WithoutMutant(seq, userId) == seq

Without(seq, userId) == SelectSeq(seq, LAMBDA c : c # userId)

\* the request slot of a new accept / decline request
FreeSlot == CHOOSE s \in 1..MaxJobs :
              /\ \A j \in jobs : j.slot # s
              /\ \A r \in 1..(s - 1) : \E j \in jobs : j.slot = r

createInvitationMutant(h, body) ==
  LET a == authMiddleware(h) IN
  IF a.status # 0
  THEN res' = [op |-> "authMiddleware", status |-> a.status] /\ UNCHANGED invVars
  ELSE IF \E i \in DOMAIN invitations :
            /\ invitations[i].boardId = body.boardId
            /\ invitations[i].userId = body.userId
  THEN res' = [op |-> "createInvitation", status |-> 201] /\ UNCHANGED invVars
  ELSE /\ Cardinality(DOMAIN invitations) < MaxInvitations
       /\ invitations' = invitations @@ ((Cardinality(DOMAIN invitations) + 1) :>
            [boardId |-> body.boardId, userId |-> body.userId, status |-> "pending"])
       /\ res' = [op |-> "createInvitation", status |-> 201]
       /\ UNCHANGED jobs

createInvitation(h, body) ==
  LET a == authMiddleware(h) IN
  IF a.status # 0
  THEN res' = [op |-> "authMiddleware", status |-> a.status] /\ UNCHANGED invVars
  ELSE /\ Cardinality(DOMAIN invitations) < MaxInvitations
       /\ invitations' = invitations @@ ((Cardinality(DOMAIN invitations) + 1) :>
            [boardId |-> body.boardId, userId |-> body.userId, status |-> "pending"])
       /\ res' = [op |-> "createInvitation", status |-> 201]
       /\ UNCHANGED jobs

\* Invitation.find({ userId, status: "pending" })
findPendingMutant(userId) ==
  {i \in DOMAIN invitations : invitations[i].userId = userId}

findPending(userId) ==
  {i \in DOMAIN invitations : /\ invitations[i].userId = userId
                              /\ invitations[i].status = "pending"}

getUserInvitations(h) ==
  LET a == authMiddleware(h) IN
  /\ res' = IF a.status # 0 THEN [op |-> "authMiddleware", status |-> a.status]
            ELSE [op |-> "getUserInvitations", status |-> 200,
                  invitations |-> findPending(a.user)]
  /\ UNCHANGED invVars

\* acceptInvitation up to `await invitation.save()`
acceptFind(h, invitationId) ==
  LET a == authMiddleware(h) IN
  IF a.status # 0
  THEN res' = [op |-> "authMiddleware", status |-> a.status] /\ UNCHANGED invVars
  ELSE IF invitationId \notin DOMAIN invitations
  THEN res' = [op |-> "acceptInvitation", status |-> 404] /\ UNCHANGED invVars
  ELSE /\ Cardinality(jobs) < MaxJobs
       /\ invitations' = [invitations EXCEPT ![invitationId].status = "accepted"]
       /\ jobs' = jobs \cup {[slot |-> FreeSlot, kind |-> "accept", inv |-> invitationId,
                              was |-> invitations[invitationId].status,
                              pc |-> "findBoard", value |-> << >>, dirty |-> FALSE]}
       /\ UNCHANGED res

\* acceptInvitation from `Board.findById` to the push, or to the response
acceptBoard(j) ==
  LET i == invitations[j.inv] IN
  /\ j.kind = "accept" /\ j.pc = "findBoard"
  /\ UNCHANGED invitations
  /\ IF i.boardId \notin DOMAIN boards
     THEN /\ jobs' = jobs \ {j}
          /\ res' = [op |-> "acceptInvitation", status |-> 500]
     ELSE IF i.userId \in Elems(boards[i.boardId].collaborators)
     THEN /\ jobs' = jobs \ {j}
          /\ res' = [op |-> "acceptInvitation", status |-> 200]
     ELSE /\ jobs' = (jobs \ {j}) \cup {[j EXCEPT !.pc = "save"]}
          /\ UNCHANGED res

\* acceptInvitation: `await board.save()` sends the push of the invitee
acceptSave(j) ==
  LET i == invitations[j.inv] IN
  /\ j.kind = "accept" /\ j.pc = "save"
  /\ jobs' = jobs \ {j}
  /\ UNCHANGED invitations
  /\ IF i.boardId \notin DOMAIN boards
     THEN /\ res' = [op |-> "acceptInvitation", status |-> 500]
          /\ UNCHANGED boards
     ELSE /\ Len(boards[i.boardId].collaborators) < MaxCollaborators
          /\ boards' = [boards EXCEPT ![i.boardId].collaborators = Append(@, i.userId)]
          /\ res' = [op |-> "acceptInvitation", status |-> 200]

\* declineInvitation up to `await invitation.save()`
declineFind(h, invitationId) ==
  LET a == authMiddleware(h) IN
  IF a.status # 0
  THEN res' = [op |-> "authMiddleware", status |-> a.status] /\ UNCHANGED invVars
  ELSE IF invitationId \notin DOMAIN invitations
  THEN res' = [op |-> "declineInvitation", status |-> 404] /\ UNCHANGED invVars
  ELSE /\ Cardinality(jobs) < MaxJobs
       /\ invitations' = [invitations EXCEPT ![invitationId].status = "declined"]
       /\ jobs' = jobs \cup {[slot |-> FreeSlot, kind |-> "decline", inv |-> invitationId,
                              was |-> invitations[invitationId].status,
                              pc |-> "findBoard", value |-> << >>, dirty |-> FALSE]}
       /\ UNCHANGED res

\* declineInvitation from `Board.findById` to the filtered assignment
declineBoard(j) ==
  LET i == invitations[j.inv] IN
  /\ j.kind = "decline" /\ j.pc = "findBoard"
  /\ UNCHANGED invitations
  /\ IF i.boardId \notin DOMAIN boards
     THEN /\ jobs' = jobs \ {j}
          /\ res' = [op |-> "declineInvitation", status |-> 200]
     ELSE LET old == boards[i.boardId].collaborators IN
          /\ jobs' = (jobs \ {j}) \cup
               {[j EXCEPT !.pc = "save", !.value = Without(old, i.userId),
                          !.dirty = (Without(old, i.userId) # old)]}
          /\ UNCHANGED res

\* declineInvitation: `await board.save()` sets the assigned array, if it changed
declineSave(j) ==
  LET i == invitations[j.inv] IN
  /\ j.kind = "decline" /\ j.pc = "save"
  /\ jobs' = jobs \ {j}
  /\ UNCHANGED invitations
  /\ IF i.boardId \notin DOMAIN boards
     THEN /\ res' = [op |-> "declineInvitation", status |-> 500]
          /\ UNCHANGED boards
     ELSE /\ boards' = IF j.dirty
                       THEN [boards EXCEPT ![i.boardId].collaborators = j.value]
                       ELSE boards
          /\ res' = [op |-> "declineInvitation", status |-> 200]

\* ------------------------------------------------------------------ time
\* Time passes, up to an instant at which one of the signed tokens expires.
Tick(t) ==
  /\ t \in tokens
  /\ clock < t.exp
  /\ t.exp <= MaxClock
  /\ clock' = t.exp
  /\ UNCHANGED <<users, sessions, nextSid, tokens, signUps, uploads, res>>

\* ------------------------------------------------------- specifications
Init ==
  /\ users = << >>
  /\ sessions = << >>
  /\ nextSid = 1
  /\ tokens = {}
  /\ clock = 0
  /\ signUps = [b \in InflightBodies |-> 0]
  /\ uploads = 0
  /\ boards = << >>
  /\ nextBoard = 1
  /\ columns = << >>
  /\ nextColumn = 1
  /\ cards = << >>
  /\ nextCard = 1
  /\ invitations = << >>
  /\ jobs = {}
  /\ res = [op |-> "none", status |-> 0]

\* Two users have registered (two runs of signUp at time 0): the starting point
\* of the specifications of the boards and of the invitations.
InitRegistered ==
  /\ clock = 0
  /\ users = <<[name |-> "Ann", email |-> "a@x.com", password |-> Hash("Secret123!"),
                avatarURL |-> "default", theme |-> "dark"],
               [name |-> "Ann", email |-> "b@x.com", password |-> Hash("Secret123!"),
                avatarURL |-> "default", theme |-> "dark"]>>
  /\ sessions = <<[uid |-> 1], [uid |-> 2]>>
  /\ nextSid = 3
  /\ tokens = TokenPair(1, 1) \cup TokenPair(2, 2)
  /\ signUps = [b \in InflightBodies |-> 0]
  /\ uploads = 0
  /\ boards = << >>
  /\ nextBoard = 1
  /\ columns = << >>
  /\ nextColumn = 1
  /\ cards = << >>
  /\ nextCard = 1
  /\ invitations = << >>
  /\ jobs = {}
  /\ res = [op |-> "none", status |-> 0]

\* Two users have registered and the first has logged out again.
InitLoggedOut ==
  /\ clock = 0
  /\ users = <<[name |-> "Ann", email |-> "a@x.com", password |-> Hash("Secret123!"),
                avatarURL |-> "default", theme |-> "dark"],
               [name |-> "Ann", email |-> "b@x.com", password |-> Hash("Secret123!"),
                avatarURL |-> "default", theme |-> "dark"]>>
  /\ sessions = (2 :> [uid |-> 2])
  /\ nextSid = 3
  /\ tokens = TokenPair(1, 1) \cup TokenPair(2, 2)
  /\ signUps = [b \in InflightBodies |-> 0]
  /\ uploads = 0
  /\ boards = << >>
  /\ nextBoard = 1
  /\ columns = << >>
  /\ nextColumn = 1
  /\ cards = << >>
  /\ nextCard = 1
  /\ invitations = << >>
  /\ jobs = {}
  /\ res = [op |-> "logOut", status |-> 200]

\* Two users have registered, the first has created a board and logged out:
\* every request that passes authMiddleware from here on is the second user's,
\* who is neither the owner nor a collaborator of that board.
InitStranger ==
  /\ clock = 0
  /\ users = <<[name |-> "Ann", email |-> "a@x.com", password |-> Hash("Secret123!"),
                avatarURL |-> "default", theme |-> "dark"],
               [name |-> "Ann", email |-> "b@x.com", password |-> Hash("Secret123!"),
                avatarURL |-> "default", theme |-> "dark"]>>
  /\ sessions = (2 :> [uid |-> 2])
  /\ nextSid = 3
  /\ tokens = TokenPair(1, 1) \cup TokenPair(2, 2)
  /\ signUps = [b \in InflightBodies |-> 0]
  /\ uploads = 0
  /\ boards = (1 :> [owner |-> 1, titleBoard |-> BoardTitle, collaborators |-> << >>])
  /\ nextBoard = 2
  /\ columns = << >>
  /\ nextColumn = 1
  /\ cards = << >>
  /\ nextCard = 1
  /\ invitations = << >>
  /\ jobs = {}
  /\ res = [op |-> "logOut", status |-> 200]

\* Two users have registered, the first has created a board, and two
\* invitations to that board are pending (createInvitation accepts any
\* userId, the owner's and an already invited user's included).
InitInvited ==
  /\ clock = 0
  /\ users = <<[name |-> "Ann", email |-> "a@x.com", password |-> Hash("Secret123!"),
                avatarURL |-> "default", theme |-> "dark"],
               [name |-> "Ann", email |-> "b@x.com", password |-> Hash("Secret123!"),
                avatarURL |-> "default", theme |-> "dark"]>>
  /\ sessions = <<[uid |-> 1], [uid |-> 2]>>
  /\ nextSid = 3
  /\ tokens = TokenPair(1, 1) \cup TokenPair(2, 2)
  /\ signUps = [b \in InflightBodies |-> 0]
  /\ uploads = 0
  /\ boards = (1 :> [owner |-> 1, titleBoard |-> BoardTitle, collaborators |-> << >>])
  /\ nextBoard = 2
  /\ columns = << >>
  /\ nextColumn = 1
  /\ cards = << >>
  /\ nextCard = 1
  /\ \E u \in UserIds :
       invitations = <<[boardId |-> 1, userId |-> 2, status |-> "pending"],
                       [boardId |-> 1, userId |-> u, status |-> "pending"]>>
  /\ jobs = {}
  /\ res = [op |-> "createInvitation", status |-> 201]

SignUpFind == (\E body \in SignUpBodies : signUpFind(body)) /\ UNCHANGED <<boardVars, invVars>>

SignUpCreate ==
  (\E body \in InflightBodies : signUpCreate(body)) /\ UNCHANGED <<boardVars, invVars>>

SignIn == (\E body \in SignInBodies : signIn(body)) /\ UNCHANGED <<boardVars, invVars>>

RefreshToken == (\E body \in TokenBodies : refreshToken(body)) /\ UNCHANGED <<boardVars, invVars>>

LogOut == (\E body \in TokenBodies : logOut(body)) /\ UNCHANGED <<boardVars, invVars>>

GoogleRedirect ==
  /\ \E ok \in BOOLEAN, email \in Emails, name \in Names \cup {BadName},
        random \in RandomPasswords : googleRedirect(ok, email, name, random)
  /\ UNCHANGED <<boardVars, invVars>>

GetCurrentUser == (\E h \in Headers : getCurrentUser(h)) /\ UNCHANGED <<boardVars, invVars>>

UpdateProfile ==
  /\ \E h \in Headers, body \in ProfileBodies : updateProfile(h, body)
  /\ UNCHANGED <<boardVars, invVars>>

Advance == (\E t \in tokens : Tick(t)) /\ UNCHANGED <<boardVars, invVars>>

ChangeTheme(H) ==
  /\ \E h \in H, theme \in themeList \cup {BadTheme} : changeTheme(h, theme)
  /\ UNCHANGED <<boardVars, invVars>>

ChangeAvatar(H) ==
  /\ \E h \in H, file \in BOOLEAN, uploaded \in BOOLEAN : changeAvatar(h, file, uploaded)
  /\ UNCHANGED <<boardVars, invVars>>

\* the headers of the clients that send their session's access token, or none
ClientHeaders ==
  {<< >>} \cup {<<"Bearer", Sign(sessions[s].uid, s, AccessTTL)>> : s \in DOMAIN sessions}

GetBoardData(H) ==
  /\ \E h \in H, boardId \in BoardIds, priority \in PriorityQueries :
       getBoardData(h, boardId, priority)
  /\ UNCHANGED <<authVars, invVars>>

AddBoard(H) ==
  /\ \E h \in H, body \in AddBoardBodies : addBoard(h, body)
  /\ UNCHANGED <<authVars, invVars>>

UpdateBoard(H) ==
  /\ \E h \in H, boardId \in BoardIds, body \in UpdateBoardBodies :
       updateBoard(h, boardId, body)
  /\ UNCHANGED <<authVars, invVars>>

DeleteBoard(H) ==
  /\ \E h \in H, boardId \in BoardIds : deleteBoard(h, boardId)
  /\ UNCHANGED <<authVars, invVars>>

AddColumn(H) ==
  /\ \E h \in H, body \in AddColumnBodies : addColumn(h, body)
  /\ UNCHANGED <<authVars, invVars>>

UpdateColumn(H) ==
  /\ \E h \in H, boardId \in BoardIds, columnId \in ColumnIds,
        body \in UpdateColumnBodies :
       updateColumn(h, boardId, columnId, body)
  /\ UNCHANGED <<authVars, invVars>>

DeleteColumn(H) ==
  /\ \E h \in H, boardId \in BoardIds, columnId \in ColumnIds :
       deleteColumn(h, boardId, columnId)
  /\ UNCHANGED <<authVars, invVars>>

AddCard(H) ==
  /\ \E h \in H, columnId \in ColumnIds, body \in AddCardBodies :
       addCard(h, columnId, body)
  /\ UNCHANGED <<authVars, invVars>>

DeleteCard(H) ==
  /\ \E h \in H, columnId \in ColumnIds, cardId \in CardIds :
       deleteCard(h, columnId, cardId)
  /\ UNCHANGED <<authVars, invVars>>

MoveCard(H) ==
  /\ \E h \in H, cardId \in CardIds, newColumnId \in ColumnIds :
       moveCard(h, cardId, newColumnId)
  /\ UNCHANGED <<authVars, invVars>>

CreateInvitation(H) ==
  /\ \E h \in H, body \in InvitationBodies : createInvitation(h, body)
  /\ UNCHANGED <<authVars, boardVars>>

GetUserInvitations(H) ==
  /\ \E h \in H : getUserInvitations(h)
  /\ UNCHANGED <<authVars, boardVars>>

AcceptFind(H) ==
  /\ \E h \in H, invitationId \in InvitationIds : acceptFind(h, invitationId)
  /\ UNCHANGED <<authVars, boardVars>>

AcceptBoard ==
  (\E j \in jobs : acceptBoard(j)) /\ UNCHANGED <<authVars, boardVars>>

AcceptSave ==
  /\ \E j \in jobs : acceptSave(j)
  /\ UNCHANGED <<authVars, nextBoard, columns, nextColumn, cards, nextCard>>

DeclineFind(H) ==
  /\ \E h \in H, invitationId \in InvitationIds : declineFind(h, invitationId)
  /\ UNCHANGED <<authVars, boardVars>>

DeclineBoard ==
  (\E j \in jobs : declineBoard(j)) /\ UNCHANGED <<authVars, boardVars>>

DeclineSave ==
  /\ \E j \in jobs : declineSave(j)
  /\ UNCHANGED <<authVars, nextBoard, columns, nextColumn, cards, nextCard>>

NextAuth ==
  \/ SignUpFind
  \/ SignUpCreate
  \/ SignIn
  \/ RefreshToken
  \/ LogOut
  \/ GoogleRedirect
  \/ GetCurrentUser
  \/ UpdateProfile
  \/ Advance

NextBoard ==
  \/ GetBoardData(ClientHeaders)
  \/ AddBoard(ClientHeaders)
  \/ DeleteBoard(ClientHeaders)
  \/ AddColumn(ClientHeaders)
  \/ DeleteColumn(ClientHeaders)
  \/ AddCard(ClientHeaders)
  \/ DeleteCard(ClientHeaders)
  \/ MoveCard(ClientHeaders)

NextInv ==
  \/ nextBoard <= MaxInvBoards /\ AddBoard(ClientHeaders)
  \/ DeleteBoard(ClientHeaders)
  \/ CreateInvitation(ClientHeaders)
  \/ GetUserInvitations(ClientHeaders)
  \/ AcceptFind(ClientHeaders)
  \/ AcceptBoard
  \/ AcceptSave
  \/ DeclineFind(ClientHeaders)
  \/ DeclineBoard
  \/ DeclineSave

\* the invitation endpoints called one after the other: a request starts only
\* when no accept or decline request is between its awaits
Idle == jobs = {}

NextInvSeq ==
  \/ Idle /\ nextBoard <= MaxInvBoards /\ AddBoard(ClientHeaders)
  \/ Idle /\ DeleteBoard(ClientHeaders)
  \/ Idle /\ CreateInvitation(ClientHeaders)
  \/ Idle /\ GetUserInvitations(ClientHeaders)
  \/ Idle /\ AcceptFind(ClientHeaders)
  \/ AcceptBoard
  \/ AcceptSave
  \/ Idle /\ DeclineFind(ClientHeaders)
  \/ DeclineBoard
  \/ DeclineSave

\* acceptInvitation and declineInvitation requests on the stored invitations,
\* up to MaxJobs of them between their awaits at a time
NextRace ==
  \/ AcceptFind(ClientHeaders)
  \/ AcceptBoard
  \/ AcceptSave
  \/ DeclineFind(ClientHeaders)
  \/ DeclineBoard
  \/ DeclineSave

\* the board, column, card and invitation endpoints called one after the
\* other by the logged-in clients, on one board with at most MaxCollab
\* columns, cards and invitations
NextCollab ==
  \/ Idle /\ nextBoard <= MaxInvBoards /\ AddBoard(ClientHeaders)
  \/ Idle /\ UpdateBoard(ClientHeaders)
  \/ Idle /\ DeleteBoard(ClientHeaders)
  \/ Idle /\ nextColumn <= MaxCollab /\ AddColumn(ClientHeaders)
  \/ Idle /\ UpdateColumn(ClientHeaders)
  \/ Idle /\ DeleteColumn(ClientHeaders)
  \/ Idle /\ nextCard <= MaxCollab /\ AddCard(ClientHeaders)
  \/ Idle /\ MoveCard(ClientHeaders)
  \/ Idle /\ DeleteCard(ClientHeaders)
  \/ Idle /\ Cardinality(DOMAIN invitations) < MaxCollab /\ CreateInvitation(ClientHeaders)
  \/ Idle /\ AcceptFind(ClientHeaders)
  \/ AcceptBoard
  \/ AcceptSave
  \/ Idle /\ DeclineFind(ClientHeaders)
  \/ DeclineBoard
  \/ DeclineSave

\* the endpoints the second user can call on the first user's board
NextStranger ==
  \/ Idle /\ UpdateBoard(ClientHeaders)
  \/ Idle /\ DeleteBoard(ClientHeaders)
  \/ Idle /\ nextColumn <= MaxCollab /\ AddColumn(ClientHeaders)
  \/ Idle /\ nextCard <= MaxCollab /\ AddCard(ClientHeaders)
  \/ Idle /\ Cardinality(DOMAIN invitations) < MaxCollab /\ CreateInvitation(ClientHeaders)
  \/ Idle /\ AcceptFind(ClientHeaders)
  \/ AcceptBoard
  \/ AcceptSave
  \/ Idle /\ DeclineFind(ClientHeaders)
  \/ DeclineBoard
  \/ DeclineSave

\* The profile endpoints of usersRouter, called by clients that sign in and
\* log out.
NextAvatar ==
  \/ SignIn
  \/ LogOut
  \/ ChangeTheme(ClientHeaders)
  \/ ChangeAvatar(ClientHeaders)

\* Every endpoint behind authMiddleware, called with every header, on a store
\* of at most MaxGate documents per collection, while sessions end and tokens
\* expire.
GateUsers(h) ==
  /\ \/ getCurrentUser(h)
     \/ \E theme \in {"dark", BadTheme} : changeTheme(h, theme)
     \/ changeAvatar(h, FALSE, FALSE)
     \/ updateProfile(h, [name |-> None, email |-> None, password |-> "Secret123!"])
  /\ UNCHANGED <<boardVars, invVars>>

GateBoards(h) ==
  /\ \/ getUserBoards(h)
     \/ getBoardData(h, 1, << >>)
     \/ nextBoard <= MaxGate /\ addBoard(h, [titleBoard |-> BoardTitle, collaborators |-> << >>])
     \/ updateBoard(h, 1, [titleBoard |-> <<BoardTitle>>, collaborators |-> << >>,
                           owner |-> << >>])
     \/ deleteBoard(h, 1)
  /\ UNCHANGED <<authVars, invVars>>

GateColumns(h) ==
  /\ \/ getColumnsForBoard(h, 1)
     \/ nextColumn <= MaxGate /\ addColumn(h, [titleColumn |-> ColumnTitle, boardId |-> 1])
     \/ updateColumn(h, 1, 1, [titleColumn |-> ColumnTitle])
     \/ deleteColumn(h, 1, 1)
  /\ UNCHANGED <<authVars, invVars>>

GateCards(h) ==
  /\ \/ getCardsForColumn(h, 1)
     \/ getCardData(h, 1)
     \/ nextCard <= MaxGate /\ \E body \in AddCardBodies : addCard(h, 1, body)
     \/ updateCard(h, 1, [titleCard |-> CardTitle, priority |-> "without", columnId |-> 1])
     \/ deleteCard(h, 1, 1)
     \/ moveCard(h, 1, 1)
  /\ UNCHANGED <<authVars, invVars>>

GateInvitations(h) ==
  /\ \/ getUserInvitations(h)
     \/ /\ Cardinality(DOMAIN invitations) < MaxGate
        /\ createInvitation(h, [boardId |-> 1, userId |-> 2])
     \/ Idle /\ acceptFind(h, 1)
     \/ Idle /\ declineFind(h, 1)
  /\ UNCHANGED <<authVars, boardVars>>

NextGate ==
  \/ \E h \in Headers : GateUsers(h)
  \/ \E h \in Headers : GateBoards(h)
  \/ \E h \in Headers : GateColumns(h)
  \/ \E h \in Headers : GateCards(h)
  \/ \E h \in Headers : GateInvitations(h)
  \/ AcceptBoard
  \/ AcceptSave
  \/ DeclineBoard
  \/ DeclineSave
  \/ LogOut
  \/ Advance

SpecAuth == Init /\ [][NextAuth]_vars

SpecBoard == InitRegistered /\ [][NextBoard]_vars

SpecInv == InitRegistered /\ [][NextInv]_vars

SpecInvSeq == InitRegistered /\ [][NextInvSeq]_vars

SpecCollab == InitRegistered /\ [][NextCollab]_vars

SpecStranger == InitStranger /\ [][NextStranger]_vars

SpecGate == InitLoggedOut /\ [][NextGate]_vars

SpecAvatar == InitRegistered /\ [][NextAvatar]_vars

SpecRace == InitInvited /\ [][NextRace]_vars

\* ------------------------------------------------------------------ claims
\* how many times userId occurs in a collaborators list
Count(seq, userId) == Cardinality({i \in DOMAIN seq : seq[i] = userId})

\* C1: after deleteBoard(B) completes successfully, no column has boardId = B
\* and no card has boardId = B.
C1_DeleteBoardCascades ==
  [][\A h \in ClientHeaders, b \in BoardIds :
       res'.op = "deleteBoard" /\ res'.status = 200 /\ deleteBoard(h, b)
       => /\ \A c \in DOMAIN columns' : columns'[c].boardId # b
          /\ \A k \in DOMAIN cards' : cards'[k].boardId # b]_vars

\* C2: after deleteColumn(C) completes successfully, no card has columnId = C.
C2_DeleteColumnCascades ==
  [][\A h \in ClientHeaders, b \in BoardIds, c \in ColumnIds :
       res'.op = "deleteColumn" /\ res'.status = 200 /\ deleteColumn(h, b, c)
       => \A k \in DOMAIN cards' : cards'[k].columnId # c]_vars

\* C3: once an invitation is accepted or declined its status never changes
\* again, and no accept or decline request that found it accepted or declined
\* changes the board's collaborators.
C3_TerminalStatus ==
  [][/\ \A i \in DOMAIN invitations :
          invitations[i].status # "pending"
          => invitations'[i].status = invitations[i].status
     /\ \A j \in jobs :
          j.was # "pending" /\ (acceptSave(j) \/ declineSave(j)) => boards' = boards]_vars

\* C4: an acceptInvitation called again, in sequence, on an invitation that is
\* accepted and whose invitee is a collaborator leaves the collaborators as
\* they are, with the invitee in them exactly once.
C4_AcceptIdempotent ==
  [][\A j \in jobs :
       LET i == invitations[j.inv] IN
       /\ j.kind = "accept" /\ j.was = "accepted"
       /\ i.boardId \in DOMAIN boards
       /\ i.userId \in Elems(boards[i.boardId].collaborators)
       /\ res'.op = "acceptInvitation" /\ res'.status = 200
       /\ (acceptBoard(j) \/ acceptSave(j))
       => /\ boards' = boards
          /\ Count(boards'[i.boardId].collaborators, i.userId) = 1]_vars

\* a header that carries a token the server signed, not expired, whose user id
\* and session id both resolve to stored records
ValidBearer(h) ==
  /\ Len(h) = 2
  /\ h[2].sig = SECRET_KEY /\ clock < h[2].exp
  /\ h[2].id \in DOMAIN users
  /\ h[2].sid \in DOMAIN sessions

\* the request was answered 401 by the middleware and nothing was changed
Rejected ==
  /\ res' = [op |-> "authMiddleware", status |-> 401]
  /\ UNCHANGED <<authVars, boardVars, invVars>>

\* C7: on every endpoint behind authMiddleware, a request reaches its handler
\* if and only if its header is a valid bearer; otherwise it is answered 401
\* and nothing is changed.
C7_Gate ==
  [][\A h \in Headers :
       \/ ValidBearer(h) = ~Rejected
       \/ ~(GateUsers(h) \/ GateBoards(h) \/ GateColumns(h) \/ GateCards(h)
              \/ GateInvitations(h))]_vars

\* C7 witness: a handler has answered while a session had ended and a token
\* had expired, and the stored board was created through the gate.
C7_Witness ==
  /\ res.op = "deleteCard" /\ res.status = 200
  /\ 1 \notin DOMAIN sessions /\ 2 \in DOMAIN sessions
  /\ clock >= AccessTTL

\* the three places a token can be presented at
Accepted(t) ==
  /\ authMiddleware(<<"Bearer", t>>).status = 0
  /\ refreshStatus(<<t>>) = 200
  /\ logOutStatus(<<t>>) = 200

Refused(t) ==
  /\ authMiddleware(<<"Bearer", t>>).status = 401
  /\ refreshStatus(<<t>>) = 403
  /\ logOutStatus(<<t>>) = 403

\* C5 as stated: the pair a login has just issued is accepted for as long as
\* its session has not been logged out, and every token of a session that has
\* been logged out is refused.
C5_UntilLogout ==
  /\ res.op = "signIn" /\ res.status = 200 /\ res.token.sid \in DOMAIN sessions
     => Accepted(res.token) /\ Accepted(res.refreshToken)
  /\ \A t \in tokens : t.sid \notin DOMAIN sessions => Refused(t)

\* C5: a token is accepted by authMiddleware, refresh and logout exactly while
\* its session is stored and it has not expired; a successful logout with any
\* token of a session removes that session, only a logout removes a session,
\* and a removed session never comes back, so every token bound to it, pairs
\* obtained by refresh included, is refused from then on.
C5_SessionBound ==
  /\ [](\A t \in tokens :
          /\ t.sid \in DOMAIN sessions /\ clock < t.exp => Accepted(t)
          /\ t.sid \notin DOMAIN sessions \/ clock >= t.exp => Refused(t))
  /\ [][\A t \in tokens :
          /\ t.sid \notin DOMAIN sessions => t.sid \notin DOMAIN sessions'
          /\ res'.op = "logOut" /\ res'.status = 200 /\ logOut(<<t>>)
             => t.sid \notin DOMAIN sessions'
          /\ t.sid \in DOMAIN sessions /\ t.sid \notin DOMAIN sessions'
             => res'.op = "logOut" /\ res'.status = 200]_vars

\* C5 witness: a session that was refreshed has been logged out while tokens
\* bound to it are not yet expired.
C5_Witness ==
  /\ res.op = "logOut" /\ res.status = 200
  /\ \E t \in tokens :
       /\ t.sid \notin DOMAIN sessions /\ clock < t.exp
       /\ Cardinality({u \in tokens : u.sid = t.sid}) > 2

\* the stored users have pairwise different emails
NoSharedEmail ==
  \A u, v \in DOMAIN users : users[u].email = users[v].email => u = v

\* C6 as stated: every register request whose email belongs to a stored user
\* is answered 409 and creates no user and no session, and no two stored
\* users share an email.
C6_Conflict ==
  /\ [][\A body \in SignUpBodies :
          res'.op = "signUp" /\ findByEmail(body.email) # {} /\ signUpFind(body)
          => res'.status = 409 /\ users' = users /\ sessions' = sessions]_vars
  /\ []NoSharedEmail

\* C6: a register request whose body passes validation and whose email
\* belongs to a stored user is answered 409, one whose body fails validation
\* is answered 400, and neither creates a user, a session or a token; a
\* request whose email was taken while it was hashing creates nothing either;
\* no two stored users ever share an email.
C6_ConflictValid ==
  /\ [][\A body \in SignUpBodies :
          /\ res'.op = "signUp" /\ signUpFind(body)
             /\ (findByEmail(body.email) # {} \/ ~signUpSchema(body))
             => /\ res'.status = IF signUpSchema(body) THEN 409 ELSE 400
                /\ UNCHANGED <<users, sessions, nextSid, tokens>>
          /\ body \in InflightBodies /\ findByEmail(body.email) # {} /\ signUpCreate(body)
             => /\ res'.status \notin {200, 201}
                /\ UNCHANGED <<users, sessions, nextSid, tokens>>]_vars
  /\ []NoSharedEmail

\* C6 witness: a register request lost the race for its email: it passed the
\* findOne check, the email was stored meanwhile, and its create was refused.
C6_Witness ==
  /\ res = [op |-> "signUp", status |-> handleSaveError]
  /\ Cardinality(DOMAIN users) = 1
  /\ \A u \in DOMAIN users : users[u].avatarURL = "default"
  /\ \A b \in InflightBodies : signUps[b] = 0

\* C8: a refresh whose token verifies and whose user id and session id
\* resolve issues a pair carrying that user id and session id and leaves the
\* sessions and users as they are; every other refresh is answered 403 and
\* changes nothing.
C8_Refresh ==
  [][\A body \in TokenBodies :
       res'.op = "refreshToken" /\ refreshToken(body)
       => IF /\ Len(body) = 1
             /\ body[1].sig = SECRET_KEY /\ clock < body[1].exp
             /\ body[1].id \in DOMAIN users
             /\ body[1].sid \in DOMAIN sessions
          THEN /\ res'.status = 200
               /\ res'.token.id = body[1].id /\ res'.token.sid = body[1].sid
               /\ res'.refreshToken.id = body[1].id
               /\ res'.refreshToken.sid = body[1].sid
               /\ tokens' = tokens \cup {res'.token, res'.refreshToken}
               /\ UNCHANGED <<users, sessions, nextSid>>
          ELSE /\ res' = [op |-> "refreshToken", status |-> 403]
               /\ UNCHANGED authVars]_vars

\* C8 witness: a refresh has issued a later pair for a session while the
\* token of another session, logged out, is refused.
C8_Witness ==
  /\ res.op = "refreshToken" /\ res.status = 200
  /\ res.refreshToken.exp > RefreshTTL
  /\ res.refreshToken.sid \in DOMAIN sessions
  /\ \E t \in tokens : t.sid \notin DOMAIN sessions

\* one session more, referencing user uid, and the others as they were
NewSession(uid) ==
  /\ nextSid \notin DOMAIN sessions
  /\ DOMAIN sessions' = DOMAIN sessions \cup {nextSid}
  /\ sessions'[nextSid].uid = uid
  /\ \A s \in DOMAIN sessions : sessions'[s] = sessions[s]

\* a session is removed only by a logout that presents a token bound to it
OnlyLogOutRemoves ==
  \A s \in DOMAIN sessions :
    s \notin DOMAIN sessions'
    => /\ res'.op = "logOut" /\ res'.status = 200
       /\ \E body \in TokenBodies : Len(body) = 1 /\ body[1].sid = s /\ logOut(body)

LoginCreates ==
  /\ \A body \in SignInBodies :
       res'.op = "signIn" /\ res'.status = 200 /\ signIn(body)
       => NewSession(res'.token.id)
  /\ \A ok \in BOOLEAN, email \in Emails, name \in Names \cup {BadName},
        random \in RandomPasswords :
       res'.op = "googleRedirect" /\ res'.status = 302
       /\ googleRedirect(ok, email, name, random)
       => NewSession(res'.token.id)

\* C9 as stated: every successful login, token refresh and OAuth login
\* creates a new session of the user, and only logout removes a session.
C9_EveryIssue ==
  [][/\ LoginCreates
     /\ \A body \in TokenBodies :
          res'.op = "refreshToken" /\ res'.status = 200 /\ refreshToken(body)
          => NewSession(res'.token.id)
     /\ OnlyLogOutRemoves]_vars

\* C9: every successful register, login and OAuth login creates a new
\* session of the user; a token refresh creates none and keeps the sessions
\* as they are; only logout removes a session.
C9_LoginsOnly ==
  [][/\ LoginCreates
     /\ \A body \in InflightBodies :
          res'.op = "signUp" /\ res'.status = 201 /\ signUpCreate(body)
          => NewSession(res'.token.id)
     /\ \A body \in TokenBodies :
          res'.op = "refreshToken" /\ refreshToken(body) => sessions' = sessions
     /\ OnlyLogOutRemoves]_vars

\* C9 witness: a refresh has issued a second pair for the one session that
\* was ever created.
C9_Witness ==
  /\ res.op = "refreshToken" /\ res.status = 200
  /\ res.token \in tokens /\ Cardinality(tokens) = 4
  /\ nextSid = 2 /\ DOMAIN sessions = {1}

\* the stored user a login body names and whose password it matches, if any
Matching(body) ==
  {u \in DOMAIN users : users[u].email = body.email
                        /\ users[u].password = Hash(body.password)}

Forbidden ==
  /\ res' = [op |-> "signIn", status |-> 403, message |-> "Invalid email or password"]
  /\ UNCHANGED authVars

\* C10 as stated: every login whose email is unknown or whose password is
\* wrong is answered 403 with the one message and creates nothing.
C10_AlwaysForbidden ==
  [][\A body \in SignInBodies :
       res'.op = "signIn" /\ Matching(body) = {} /\ signIn(body) => Forbidden]_vars

\* C10: a login whose body passes validation and whose email is unknown or
\* whose password is wrong is answered 403 with the one message; a login
\* whose body fails validation is answered 400; in both cases no session is
\* created and no token issued.  Only a matching email and password creates
\* a session and issues a pair carrying that user's id and the new session's
\* id.
C10_Login ==
  [][\A body \in SignInBodies :
       res'.op = "signIn" /\ signIn(body)
       => IF ~signInSchema(body)
          THEN res'.status = 400 /\ UNCHANGED authVars
          ELSE IF Matching(body) = {}
          THEN Forbidden
          ELSE /\ res'.status = 200
               /\ res'.token.id \in Matching(body)
               /\ NewSession(res'.token.id)
               /\ res'.token.sid = nextSid
               /\ res'.refreshToken.id = res'.token.id
               /\ res'.refreshToken.sid = nextSid
               /\ tokens' = tokens \cup {res'.token, res'.refreshToken}]_vars

\* C10 witness: after a successful login of a user, a login with that
\* user's email and another well-formed password has been answered 403.
C10_Witness ==
  /\ res.op = "signIn" /\ res.status = 403
  /\ Cardinality(DOMAIN sessions) = 2
  /\ \E u \in DOMAIN users : users[u].password = Hash("Hunter22!")

\* C11: a logout whose refresh token is missing, fails verification or names a
\* session that is not stored is answered 403 and changes no session; every
\* other logout is answered 200, removes exactly the session its token names
\* and keeps every other session, those of the same user included, so that
\* the same token is answered 403 from then on.
C11_LogOut ==
  [][\A body \in TokenBodies :
       res'.op = "logOut" /\ logOut(body)
       => IF \/ Len(body) = 0
             \/ body[1].sig # SECRET_KEY \/ clock >= body[1].exp
             \/ body[1].sid \notin DOMAIN sessions
          THEN res'.status = 403 /\ UNCHANGED authVars
          ELSE /\ res'.status = 200
               /\ DOMAIN sessions' = DOMAIN sessions \ {body[1].sid}
               /\ \A s \in DOMAIN sessions' : sessions'[s] = sessions[s]
               /\ UNCHANGED <<users, tokens>>
               /\ logOutStatus(body)' = 403]_vars

\* C11 witness: a logout has been refused while a session of a user is
\* logged out, its tokens unexpired, and another session of that user is kept.
C11_Witness ==
  /\ res.op = "logOut" /\ res.status = 403
  /\ \E t \in tokens :
       /\ t.sid \notin DOMAIN sessions /\ clock < t.exp
       /\ \E s \in DOMAIN sessions : sessions[s].uid = t.id

\* the accept or decline request j answers in this step
Answers(j) == \A k \in jobs' : k.slot # j.slot

\* C12: an accept of an id that names no invitation is answered 404 and
\* changes no invitation and no board; an accept of a stored invitation is
\* answered 200 with the invitation's status accepted, the invitee among the
\* collaborators of the invitation's board and every other collaborator of
\* that board kept.
C12_Accept ==
  [][/\ \A h \in ClientHeaders, id \in InvitationIds :
          authMiddleware(h).status = 0 /\ id \notin DOMAIN invitations
          /\ acceptFind(h, id)
          => res'.status = 404 /\ UNCHANGED <<invitations, boards>>
     /\ \A j \in jobs :
          j.kind = "accept" /\ (acceptBoard(j) \/ acceptSave(j)) /\ Answers(j)
          => LET i == invitations'[j.inv] IN
             /\ res' = [op |-> "acceptInvitation", status |-> 200]
             /\ i.status = "accepted"
             /\ i.boardId \in DOMAIN boards'
             /\ i.userId \in Elems(boards'[i.boardId].collaborators)
             /\ i.boardId \in DOMAIN boards
             /\ \A c \in Elems(boards[i.boardId].collaborators) :
                  Count(boards'[i.boardId].collaborators, c)
                    = Count(boards[i.boardId].collaborators, c)
                      + (IF c = i.userId /\ acceptSave(j) THEN 1 ELSE 0)]_vars

\* C13: a decline of an id that names no invitation is answered 404 and
\* changes no invitation and no board; a decline of a stored invitation is
\* answered 200 with the invitation's status declined, and when the
\* invitation's board is stored its collaborators are the former ones without
\* the invitee, in their order: unchanged when the invitee was not among them.
\* No other board changes.
C13_Decline ==
  [][/\ \A h \in ClientHeaders, id \in InvitationIds :
          authMiddleware(h).status = 0 /\ id \notin DOMAIN invitations
          /\ declineFind(h, id)
          => res'.status = 404 /\ UNCHANGED <<invitations, boards>>
     /\ \A j \in jobs :
          j.kind = "decline" /\ (declineBoard(j) \/ declineSave(j)) /\ Answers(j)
          => LET i == invitations'[j.inv] IN
             /\ res' = [op |-> "declineInvitation", status |-> 200]
             /\ i.status = "declined"
             /\ DOMAIN boards' = DOMAIN boards
             /\ \A b \in DOMAIN boards :
                  IF b = i.boardId
                  THEN /\ i.userId \notin Elems(boards'[b].collaborators)
                       /\ \A c \in UserIds \ {i.userId} :
                            Count(boards'[b].collaborators, c)
                              = Count(boards[b].collaborators, c)
                       /\ i.userId \notin Elems(boards[b].collaborators)
                          => boards'[b] = boards[b]
                       /\ [boards'[b] EXCEPT !.collaborators = << >>]
                            = [boards[b] EXCEPT !.collaborators = << >>]
                  ELSE boards'[b] = boards[b]]_vars

\* C13 witness: the invitee accepted a first invitation to a board, a second
\* invitation of theirs to that board has been declined, and the invitee is
\* not among the board's collaborators.
C13_Witness ==
  /\ res = [op |-> "declineInvitation", status |-> 200]
  /\ jobs = {}
  /\ DOMAIN invitations = {1, 2}
  /\ invitations[1].status = "accepted" /\ invitations[2].status = "declined"
  /\ invitations[1].userId = invitations[2].userId
  /\ invitations[1].boardId = invitations[2].boardId
  /\ invitations[1].boardId \in DOMAIN boards
  /\ invitations[1].userId \notin Elems(boards[invitations[1].boardId].collaborators)

\* C14: the list a user is answered with holds exactly the invitations whose
\* userId is that user and whose status is pending.  An invitation is created
\* pending, keeps its userId, and once it is accepted or declined it is never
\* pending again: it is in its invitee's list from its creation until it is
\* accepted or declined, and in no other user's list.
C14_PendingList ==
  [][/\ \A h \in ClientHeaders :
          authMiddleware(h).status = 0 /\ getUserInvitations(h)
          => /\ res'.op = "getUserInvitations" /\ res'.status = 200
             /\ \A i \in InvitationIds :
                  i \in res'.invitations
                  <=> /\ i \in DOMAIN invitations
                      /\ invitations[i].userId = authMiddleware(h).user
                      /\ invitations[i].status = "pending"
     /\ \A i \in DOMAIN invitations' :
          IF i \in DOMAIN invitations
          THEN /\ invitations'[i].userId = invitations[i].userId
               /\ invitations[i].status # "pending"
                  => invitations'[i].status # "pending"
          ELSE invitations'[i].status = "pending"]_vars

\* C14 witness: a user with a pending invitation and an accepted one has been
\* answered with the pending one alone.
C14_Witness ==
  /\ res.op = "getUserInvitations" /\ res.status = 200
  /\ res.invitations = {2}
  /\ DOMAIN invitations = {1, 2}
  /\ invitations[1].userId = invitations[2].userId
  /\ invitations[1].status = "accepted" /\ invitations[2].status = "pending"

\* C15: every stored column whose board is stored has that board's owner as
\* its owner.
C15_ColumnOwner ==
  \A c \in DOMAIN columns :
    columns[c].boardId \in DOMAIN boards
    => columns[c].owner = boards[columns[c].boardId].owner

\* C16: the card an addCard request creates in column C has C's boardId as its
\* boardId and C's owner as its owner, whichever client made the request.
C16_CardAtCreation ==
  [][\A h \in ClientHeaders, columnId \in ColumnIds, body \in AddCardBodies :
       res'.op = "addCard" /\ res'.status = 201 /\ addCard(h, columnId, body)
       => /\ cards'[nextCard].columnId = columnId
          /\ cards'[nextCard].boardId = columns[columnId].boardId
          /\ cards'[nextCard].owner = columns[columnId].owner]_vars

\* C17: a moveCard request for a stored card is answered 200 whichever column
\* id it names, that of a column of another board included; it sets the
\* card's columnId and leaves the card's boardId, owner, title, priority and
\* collaborators, every other card, the columns and the boards as they were.
C17_MoveCard ==
  [][\A h \in ClientHeaders, cardId \in CardIds, newColumnId \in ColumnIds :
       res'.op = "moveCard" /\ cardId \in DOMAIN cards
       /\ moveCard(h, cardId, newColumnId)
       => /\ res' = [op |-> "moveCard", status |-> 200]
          /\ DOMAIN cards' = DOMAIN cards
          /\ cards'[cardId].columnId = newColumnId
          /\ cards'[cardId].boardId = cards[cardId].boardId
          /\ cards'[cardId].owner = cards[cardId].owner
          /\ cards'[cardId].titleCard = cards[cardId].titleCard
          /\ cards'[cardId].priority = cards[cardId].priority
          /\ cards'[cardId].collaborators = cards[cardId].collaborators
          /\ \A c \in DOMAIN cards \ {cardId} : cards'[c] = cards[c]
          /\ UNCHANGED <<boards, columns>>]_vars

\* C17 witness: a card has been moved to a stored column of another board:
\* its boardId is not its column's boardId.
C17_Witness ==
  /\ res = [op |-> "moveCard", status |-> 200]
  /\ \E c \in DOMAIN cards :
       /\ cards[c].columnId \in DOMAIN columns
       /\ cards[c].boardId \in DOMAIN boards
       /\ columns[cards[c].columnId].boardId \in DOMAIN boards
       /\ columns[cards[c].columnId].boardId # cards[c].boardId

\* C18: the owner of a board is the user whose request created it, and no
\* step of any user changes the owner of a stored board: not an updateBoard,
\* with or without an owner in its body, not an invitation, column or card
\* operation.
C18_OwnerImmutable ==
  [][/\ \A b \in DOMAIN boards \cap DOMAIN boards' :
          boards'[b].owner = boards[b].owner
     /\ \A b \in DOMAIN boards' \ DOMAIN boards :
          /\ res' = [op |-> "addBoard", status |-> 201]
          /\ \E h \in ClientHeaders, body \in AddBoardBodies :
               addBoard(h, body) /\ boards'[b].owner = h[2].id
          /\ \A h \in ClientHeaders, body \in AddBoardBodies :
               addBoard(h, body) => boards'[b].owner = h[2].id]_vars

\* C18 witness: the other user has updated a board and has been accepted as
\* its collaborator, and columns and cards were added to it.
C18_Witness ==
  /\ res = [op |-> "updateBoard", status |-> 200]
  /\ jobs = {}
  /\ \E b \in DOMAIN boards :
       /\ boards[b].owner = 1
       /\ 2 \in Elems(boards[b].collaborators)
       /\ \E i \in DOMAIN invitations :
            invitations[i] = [boardId |-> b, userId |-> 2, status |-> "accepted"]
       /\ \E c \in DOMAIN columns : columns[c].boardId = b /\ columns[c].owner = 2
       /\ \E c \in DOMAIN cards : cards[c].boardId = b /\ cards[c].owner = 2

\* C19: the collaborators list of every stored board holds each user id at
\* most once.
C19_UniqueCollaborators ==
  \A b \in DOMAIN boards, u \in UserIds : Count(boards[b].collaborators, u) <= 1

\* C20: getBoardData of an id that names no board is answered 404; of a stored
\* board it is answered with every column whose boardId is that board, each
\* with the cards whose columnId is that column, and with a priority in the
\* query only those of them that have that priority.  A column is listed also
\* when the query leaves it no card.  Nothing stored changes.
C20_BoardData ==
  [][\A h \in ClientHeaders, boardId \in BoardIds, priority \in PriorityQueries :
       res'.op = "getBoardData" /\ getBoardData(h, boardId, priority)
       => /\ UNCHANGED boardVars
          /\ IF boardId \notin DOMAIN boards
             THEN res'.status = 404
             ELSE /\ res'.status = 200
                  /\ DOMAIN res'.columns
                       = {c \in DOMAIN columns : columns[c].boardId = boardId}
                  /\ \A c \in DOMAIN res'.columns, k \in CardIds :
                       k \in res'.columns[c]
                       <=> /\ k \in DOMAIN cards
                           /\ cards[k].columnId = c
                           /\ priority = << >> \/ cards[k].priority = priority[1]]_vars

\* C20 witness: a board has been answered with a column that holds a card and
\* is listed without it, the query's priority not being the card's.
C20_Witness ==
  /\ res.op = "getBoardData" /\ res.status = 200
  /\ \E c \in DOMAIN res.columns :
       /\ res.columns[c] = {}
       /\ \E k \in DOMAIN cards : cards[k].columnId = c

\* C21: an addColumn, updateColumn or deleteColumn request that names a board
\* that is not stored fails, and no column is created, changed or deleted.
C21_ParentBoard ==
  [][\A h \in ClientHeaders, boardId \in BoardIds, columnId \in ColumnIds :
       /\ res'.op \in {"addColumn", "updateColumn", "deleteColumn"}
       /\ boardId \notin DOMAIN boards
       /\ \/ \E body \in AddColumnBodies : body.boardId = boardId /\ addColumn(h, body)
          \/ \E body \in UpdateColumnBodies : updateColumn(h, boardId, columnId, body)
          \/ deleteColumn(h, boardId, columnId)
       => res'.status \notin {200, 201} /\ columns' = columns]_vars

\* a request of one of the validating operations behind authMiddleware whose
\* body fails the operation's schema
InvalidBody(h) ==
  \/ \E body \in AddBoardBodies : ~addBoardSchema(body) /\ addBoard(h, body)
  \/ \E b \in BoardIds, body \in UpdateBoardBodies :
       ~updateBoardSchema(body) /\ updateBoard(h, b, body)
  \/ \E body \in AddColumnBodies : ~schemaAddColumn(body) /\ addColumn(h, body)
  \/ \E b \in BoardIds, c \in ColumnIds, body \in UpdateColumnBodies :
       ~schemaUpdateColumn(body) /\ updateColumn(h, b, c, body)
  \/ \E c \in ColumnIds, body \in AddCardBodies :
       ~cardAddSchema(body) /\ addCard(h, c, body)
  \/ \E k \in CardIds, body \in UpdateCardBodies :
       ~cardUpdateSchema(body) /\ updateCard(h, k, body)
  \/ changeTheme(h, BadTheme)
  \/ \E body \in ProfileBodies : ~updateProfileSchema(body) /\ updateProfile(h, body)

\* C22: a request of a validating operation whose body fails validation is
\* answered 400 and the stored users, sessions, boards, columns and cards are
\* unchanged: register and login, and behind authMiddleware addBoard,
\* updateBoard, addColumn, updateColumn, addCard, updateCard, changeTheme and
\* updateProfile.
C22_InvalidBody ==
  [][/\ \A h \in Headers :
          /\ res'.op \in {"addBoard", "updateBoard", "addColumn", "updateColumn",
                          "addCard", "updateCard", "changeTheme", "updateProfile"}
          /\ authMiddleware(h).status = 0
          /\ InvalidBody(h)
          => /\ res'.status = 400
             /\ UNCHANGED <<users, sessions, boards, columns, cards>>
     /\ \A body \in SignUpBodies :
          res'.op = "signUp" /\ ~signUpSchema(body) /\ signUpFind(body)
          => /\ res'.status = 400
             /\ UNCHANGED <<users, sessions, boards, columns, cards>>
     /\ \A body \in SignInBodies :
          res'.op = "signIn" /\ ~signInSchema(body) /\ signIn(body)
          => /\ res'.status = 400
             /\ UNCHANGED <<users, sessions, boards, columns, cards>>]_vars

\* a request, with a body that passes validation, of an operation that
\* addresses a board, column or card by an id that names no stored document
MissingId(h) ==
  \/ \E b \in BoardIds \ DOMAIN boards :
       \/ \E body \in UpdateBoardBodies : updateBoardSchema(body) /\ updateBoard(h, b, body)
       \/ deleteBoard(h, b)
  \/ \E b \in BoardIds, c \in ColumnIds \ DOMAIN columns :
       \/ \E body \in UpdateColumnBodies :
            schemaUpdateColumn(body) /\ updateColumn(h, b, c, body)
       \/ deleteColumn(h, b, c)
  \/ \E k \in CardIds \ DOMAIN cards :
       \/ \E body \in UpdateCardBodies : cardUpdateSchema(body) /\ updateCard(h, k, body)
       \/ \E c \in ColumnIds : deleteCard(h, c, k) \/ moveCard(h, k, c)
       \/ getCardData(h, k)

\* C23: updateBoard, deleteBoard, updateColumn, deleteColumn, updateCard,
\* deleteCard, moveCard and getCard are answered 404 when the id they address
\* names no stored board, column or card, and change nothing.
C23_MissingId ==
  [][\A h \in ClientHeaders :
       /\ res'.op \in {"updateBoard", "deleteBoard", "updateColumn", "deleteColumn",
                       "updateCard", "deleteCard", "moveCard", "getCardData"}
       /\ MissingId(h)
       => res'.status = 404 /\ UNCHANGED <<boards, columns, cards>>]_vars

\* C24: an updateBoard or deleteBoard request of any user with a live session
\* takes effect on any stored board, the requester being its owner, one of
\* its collaborators or neither: the update is answered 200 and sets the
\* title and the collaborators its body carries, the delete is answered 200
\* and removes the board.
C24_NoOwnershipCheck ==
  [][\A h \in ClientHeaders, b \in DOMAIN boards :
       authMiddleware(h).status = 0
       => /\ \A body \in UpdateBoardBodies :
               res'.op = "updateBoard" /\ updateBoardSchema(body) /\ updateBoard(h, b, body)
               => /\ res'.status = 200
                  /\ DOMAIN boards' = DOMAIN boards
                  /\ body.collaborators # << >>
                     => boards'[b].collaborators = body.collaborators[1]
                  /\ body.titleBoard # << >>
                     => boards'[b].titleBoard = body.titleBoard[1]
          /\ res'.op = "deleteBoard" /\ deleteBoard(h, b)
             => /\ res'.status = 200
                /\ DOMAIN boards' = DOMAIN boards \ {b}]_vars

\* C24 witness: the first user's board has been deleted by a request while
\* the second user, never invited to it, is the only one with a session.
C24_Witness ==
  /\ res = [op |-> "deleteBoard", status |-> 200]
  /\ 1 \notin DOMAIN boards
  /\ \A s \in DOMAIN sessions : sessions[s].uid = 2
  /\ invitations = << >>

\* C25: an invitation is created only by a request of a user who is, at that
\* time, the owner or a collaborator of the stored board it names.
C25_InvitedByMember ==
  [][\A h \in ClientHeaders, body \in InvitationBodies :
       res'.op = "createInvitation" /\ res'.status = 201 /\ createInvitation(h, body)
       => /\ body.boardId \in DOMAIN boards
          /\ \/ boards[body.boardId].owner = authMiddleware(h).user
             \/ authMiddleware(h).user \in Elems(boards[body.boardId].collaborators)]_vars

\* C26: a createInvitation request is answered 201 and adds one invitation,
\* pending, for the board and user of its body, whatever invitations are
\* stored for that pair; the stored invitations and the boards stay as they
\* are.
C26_CreateInvitation ==
  [][\A h \in ClientHeaders, body \in InvitationBodies :
       authMiddleware(h).status = 0 /\ createInvitation(h, body)
       => /\ res' = [op |-> "createInvitation", status |-> 201]
          /\ Cardinality(DOMAIN invitations') = Cardinality(DOMAIN invitations) + 1
          /\ \A i \in DOMAIN invitations' :
               IF i \in DOMAIN invitations
               THEN invitations'[i] = invitations[i]
               ELSE invitations'[i] = [boardId |-> body.boardId, userId |-> body.userId,
                                       status |-> "pending"]
          /\ boards' = boards]_vars

\* C26 witness: an invitation has been created for a board and user whose
\* earlier invitation is accepted, the user being a collaborator.
C26_Witness ==
  /\ res = [op |-> "createInvitation", status |-> 201]
  /\ jobs = {}
  /\ DOMAIN invitations = {1, 2}
  /\ invitations[1].status = "accepted" /\ invitations[2].status = "pending"
  /\ invitations[1].boardId = invitations[2].boardId
  /\ invitations[1].userId = invitations[2].userId
  /\ invitations[1].boardId \in DOMAIN boards
  /\ invitations[1].userId \in Elems(boards[invitations[1].boardId].collaborators)

\* C27: every changeAvatar request that carries a file leaves no temporary
\* file behind when it finishes, whether the upload and the user update
\* succeeded or failed: the number of files in the uploads directory is the
\* same after the request as before it.
C27_TempFileRemoved ==
  [][\A h \in ClientHeaders, uploaded \in BOOLEAN :
       res'.op = "changeAvatar" /\ changeAvatar(h, TRUE, uploaded)
         => uploads' = uploads]_vars

\* C28: acceptInvitation is all-or-nothing.  When an accept request answers,
\* either it answers 200, the invitation is accepted and the invitee is among
\* the collaborators of the invitation's board, or it answers an error and
\* the invitation has the status it had before the request: no invitation is
\* accepted by a request that answered an error.
C28_AcceptAllOrNothing ==
  [][\A j \in jobs :
       j.kind = "accept" /\ (acceptBoard(j) \/ acceptSave(j)) /\ Answers(j)
       => LET i == invitations'[j.inv] IN
          \/ /\ res'.status = 200
             /\ i.status = "accepted"
             /\ i.boardId \in DOMAIN boards'
             /\ i.userId \in Elems(boards'[i.boardId].collaborators)
          \/ /\ res'.status # 200
             /\ i.status = j.was]_vars

\* some invitation of user u to board b has this status
Invited(b, u, status) ==
  \E i \in DOMAIN invitations :
    /\ invitations[i].boardId = b
    /\ invitations[i].userId = u
    /\ invitations[i].status = status

\* C29: whatever the interleaving of the steps of concurrent accept and
\* decline requests on one board, once every request has answered, a user
\* with an accepted and no declined invitation to the board is among its
\* collaborators exactly once, and a user with a declined and no accepted
\* invitation is not among them.
C29_NoLostUpdate ==
  jobs = {} =>
    \A b \in DOMAIN boards, u \in UserIds :
      /\ Invited(b, u, "accepted") /\ ~Invited(b, u, "declined")
         => Count(boards[b].collaborators, u) = 1
      /\ Invited(b, u, "declined") /\ ~Invited(b, u, "accepted")
         => Count(boards[b].collaborators, u) = 0

\* C30: acceptInvitation and declineInvitation take effect only when the
\* authenticated requester is the invitation's userId: a request of any other
\* user on a stored invitation changes no invitation and starts no change of
\* a board's collaborators.
C30_OwnRequestOnly ==
  [][\A h \in ClientHeaders, id \in DOMAIN invitations :
       /\ authMiddleware(h).status = 0
       /\ authMiddleware(h).user # invitations[id].userId
       /\ (acceptFind(h, id) \/ declineFind(h, id))
       => UNCHANGED <<invitations, jobs>>]_vars

====
